---- MODULE Spec2Model ----
\* Dashboard front end of the PDF Article Translator: the in-memory job map,
\* the rendered job table, the upload handler and the status poller.
\*
\* Text (job ids, file names, statuses) is a sequence of one-character
\* strings, so that toLowerCase, trim and encodeURIComponent are computed
\* character by character.  The page is the dashboard page: the elements
\* looked up by id at the top of the script (upload form, upload status,
\* jobs body, polling indicator, submit button) exist.
EXTENDS Integers, Sequences, FiniteSets, TLC

VARIABLES
  pc,             \* "load" before seedExistingJobs has run, "ready" after
  jobs,           \* the Map `jobs`: entries in insertion order
  rows,           \* the <tr data-job-id> rows of #jobs-body, first row first
  emptyRow,       \* whether the placeholder .empty-row is in #jobs-body
  pollerId,       \* the handle kept by startPolling, 0 for null
  timers,         \* the interval timers that exist, by handle
  tickCount,      \* number of pollAllJobs calls so far
  tickPromise,    \* state of the promise of each pollAllJobs call
  requests,       \* the status requests issued by the ticks
  indicator,      \* text of #polling-indicator
  submitDisabled, \* the submit button's disabled property
  uploadStatus,   \* text of #upload-status
  uploading,      \* file names captured by the handleUpload calls in flight
  uploadCount     \* number of handleUpload calls so far

vars == <<pc, jobs, rows, emptyRow, pollerId, timers, tickCount, tickPromise,
          requests, indicator, submitDisabled, uploadStatus, uploading,
          uploadCount>>

----------------------------------------------------------------------------
\* Bounds of the model.

MaxTicks == 2
MaxUploads == 1

----------------------------------------------------------------------------
\* Text values.

Undefined == <<"undefined">>

sDone == <<"d", "o", "n", "e">>
sDONE == <<"D", "O", "N", "E">>
sDoNe == <<"D", "o", "N", "e">>
sPending == <<"p", "e", "n", "d", "i", "n", "g">>
sPDF == <<"P", "D", "F">>
sDash == <<"-">>   \* the em dash shown for a missing file name
sEmpty == << >>
sFileA == <<"a", ".", "p", "d", "f">>
sFileB == <<"b", ".", "p", "d", "f">>
sId42 == <<"4", "2">>
sId7 == <<"7">>

JobIds == {sId42, sId7}

\* JavaScript truthiness of a string-or-undefined value, and a || b.
Truthy(s) == s # Undefined /\ s # sEmpty

Or(a, b) == IF Truthy(a) THEN a ELSE b

\* toLowerCase on the letters the texts of this model use.
LowerChar(c) ==
  CASE c = "D" -> "d"
    [] c = "O" -> "o"
    [] c = "N" -> "n"
    [] c = "E" -> "e"
    [] c = "P" -> "p"
    [] c = "F" -> "f"
    [] OTHER -> c

ToLowerCase(s) == [i \in DOMAIN s |-> LowerChar(s[i])]

IsSpace(c) == c = " "

RECURSIVE TrimStart(_)
TrimStart(s) ==
  IF s # << >> /\ IsSpace(Head(s)) THEN TrimStart(Tail(s)) ELSE s

RECURSIVE TrimEnd(_)
TrimEnd(s) ==
  IF s # << >> /\ IsSpace(s[Len(s)])
  THEN TrimEnd(SubSeq(s, 1, Len(s) - 1))
  ELSE s

Trim(s) == TrimEnd(TrimStart(s))

\* encodeURIComponent: unreserved characters stay, the others are escaped.
EncodeChar(c) ==
  CASE c = " " -> <<"%", "2", "0">>
    [] c = "/" -> <<"%", "2", "F">>
    [] OTHER -> <<c>>

RECURSIVE EncodeURIComponent(_)
EncodeURIComponent(s) ==
  IF s = << >> THEN << >>
  ELSE EncodeChar(Head(s)) \o EncodeURIComponent(Tail(s))

----------------------------------------------------------------------------
\* The Map `jobs`.

MapHas(m, k) == \E i \in 1..Len(m) : m[i].id = k

MapIndex(m, k) == CHOOSE i \in 1..Len(m) : m[i].id = k

MapGet(m, k) == m[MapIndex(m, k)]

\* A map that never replaces an entry.
MapSetAppends(m, k, v) == Append(m, v)

MapSet(m, k, v) ==
  IF MapHas(m, k)
  THEN [m EXCEPT ![MapIndex(m, k)] = v]
  ELSE Append(m, v)

MapKeys(m) == {m[i].id : i \in 1..Len(m)}

Job(id, filename, status) == [id |-> id, filename |-> filename, status |-> status]

----------------------------------------------------------------------------
\* Rendering.

DownloadPrefix == <<"/api/download/">>
NotReady == <<"Not ready">>

renderStatusBadge(status) ==
  LET s == IF status = Undefined THEN sPending ELSE status
  IN [cls |-> ToLowerCase(s), text |-> s]

\* The link test without toLowerCase.
renderDownloadLinkCaseSensitive(job) ==
  IF job.status = sDone
  THEN DownloadPrefix \o EncodeURIComponent(job.id)
  ELSE NotReady

renderDownloadLink(job) ==
  IF Truthy(job.status) /\ ToLowerCase(job.status) = sDone
  THEN DownloadPrefix \o EncodeURIComponent(job.id)
  ELSE NotReady

RowHas(rs, id) == \E i \in 1..Len(rs) : rs[i].id = id

\* document.querySelector: the first matching row.
RowIndex(rs, id) ==
  CHOOSE i \in 1..Len(rs) :
    rs[i].id = id /\ \A j \in 1..(i - 1) : rs[j].id # id

RowOf(rs, id) == rs[RowIndex(rs, id)]

Row(id, name, badge, status, download) ==
  [id |-> id, name |-> name, badge |-> badge, status |-> status,
   download |-> download]

\* renderJob looking the row up without the job's id.
renderJobFirstRow(rs, job) ==
  LET cells == renderStatusBadge(job.status)
      row == Row(job.id, Or(job.filename, sDash), cells.cls, cells.text,
                 renderDownloadLink(job))
  IN IF rs # << >>
     THEN [rs EXCEPT ![1] = row]
     ELSE <<row>> \o rs

renderJob(rs, job) ==
  LET cells == renderStatusBadge(job.status)
      row == Row(job.id, Or(job.filename, sDash), cells.cls, cells.text,
                 renderDownloadLink(job))
  IN IF RowHas(rs, job.id)
     THEN [rs EXCEPT ![RowIndex(rs, job.id)] = row]
     ELSE <<row>> \o rs

----------------------------------------------------------------------------
\* The poll timer.

NewTimer(ts) == IF ts = {} THEN 1 ELSE 1 + CHOOSE t \in ts : \A u \in ts : u <= t

\* startPolling without the test of pollerId.
startPollingUnguarded(p, ts, m) ==
  IF Len(m) = 0
  THEN <<p, ts>>
  ELSE <<NewTimer(ts), ts \cup {NewTimer(ts)}>>

\* startPolling, as the new <<pollerId, timers>>.
startPolling(p, ts, m) ==
  IF p # 0 \/ Len(m) = 0
  THEN <<p, ts>>
  ELSE <<NewTimer(ts), ts \cup {NewTimer(ts)}>>

----------------------------------------------------------------------------
\* What the server and the user may supply.

NoPayload == [job_id |-> Undefined, id |-> Undefined,
              filename |-> Undefined, status |-> Undefined]

PayloadStatuses == {Undefined, sPending, sDoNe}
PayloadFilenames == {Undefined, sFileB}

StatusPayload(f, s) == [NoPayload EXCEPT !.filename = f, !.status = s]

StatusPayloads ==
  {StatusPayload(Undefined, s) : s \in PayloadStatuses}
    \cup {StatusPayload(f, Undefined) : f \in PayloadFilenames}

\* Bodies a non-2xx response may carry.
StatusErrorBodies == {NoPayload, StatusPayload(sFileB, sDoNe)}

UploadPayload(j, i, f, s) == [job_id |-> j, id |-> i, filename |-> f, status |-> s]

UploadPayloads ==
  {UploadPayload(sId42, Undefined, sFileB, sDone),
   UploadPayload(sId42, Undefined, Undefined, Undefined),
   UploadPayload(sId7, Undefined, Undefined, sDone),
   UploadPayload(Undefined, sId7, Undefined, Undefined),
   UploadPayload(Undefined, Undefined, Undefined, Undefined),
   UploadPayload(Undefined, sEmpty, sFileB, sDone)}

UploadErrorBodies == {NoPayload, UploadPayload(sId7, Undefined, sFileB, sDone)}

\* How a request can fail: a non-2xx response (whatever its body), a rejected
\* fetch, a body that is not JSON.
BodyFailures == {"network_error", "bad_json"}
Failures == {"http_error"} \cup BodyFailures

\* Names of the file chosen in the form; empty when no file is chosen.
FormFiles == {sEmpty, sFileA}

Pad(s) == <<" ">> \o s \o <<" ">>

\* A row as the server renders it: cell text may carry surrounding blanks.
ServerRow(id, name, status) ==
  Row(id, Pad(name), ToLowerCase(status), Pad(status),
      IF ToLowerCase(status) = sDone
      THEN DownloadPrefix \o EncodeURIComponent(id)
      ELSE NotReady)

SeedStatuses == {sPending, sDone}

SeedPages ==
  {<< >>}
    \cup {<<ServerRow(sId42, sFileA, s)>> : s \in SeedStatuses}

----------------------------------------------------------------------------
\* Page load.

Init ==
  /\ pc = "load"
  /\ jobs = << >>
  /\ rows \in SeedPages
  /\ emptyRow = (rows = << >>)
  /\ pollerId = 0
  /\ timers = {}
  /\ tickCount = 0
  /\ tickPromise = << >>
  /\ requests = {}
  /\ indicator = ""
  /\ submitDisabled = FALSE
  /\ uploadStatus = ""
  /\ uploading = << >>
  /\ uploadCount = 0

\* The forEach without the test of the row's id.
RECURSIVE seedRowsNoIdCheck(_, _)
seedRowsNoIdCheck(rs, m) ==
  IF rs = << >> THEN m
  ELSE LET row == Head(rs)
           job == Job(row.id, Trim(row.name), Trim(row.status))
       IN seedRowsNoIdCheck(Tail(rs), MapSet(m, row.id, job))

\* The forEach of seedExistingJobs over the rows, in document order.
RECURSIVE seedRows(_, _)
seedRows(rs, m) ==
  IF rs = << >> THEN m
  ELSE LET row == Head(rs)
           job == Job(row.id, Trim(row.name), Trim(row.status))
       IN seedRows(Tail(rs),
                   IF Truthy(row.id) THEN MapSet(m, row.id, job) ELSE m)

seedExistingJobs ==
  /\ pc = "load"
  /\ pc' = "ready"
  /\ jobs' = seedRows(rows, jobs)
  /\ LET started == IF Len(jobs') > 0
                    THEN startPolling(pollerId, timers, jobs')
                    ELSE <<pollerId, timers>>
     IN /\ pollerId' = started[1]
        /\ timers' = started[2]
  /\ UNCHANGED <<rows, emptyRow, tickCount, tickPromise, requests, indicator,
                 submitDisabled, uploadStatus, uploading, uploadCount>>

----------------------------------------------------------------------------
\* Polling.

NoJob == Job(Undefined, Undefined, Undefined)

Request(tick, job) == [tick |-> tick, id |-> job.id, job |-> job, state |-> "pending"]

\* pollAllJobs skipping a tick while an earlier tick is unsettled.
pollAllJobsSkipsIfInFlight(t) ==
  /\ pc = "ready"
  /\ t \in timers
  /\ tickCount < MaxTicks
  /\ \A r \in requests : r.state # "pending"
  /\ tickCount' = tickCount + 1
  /\ indicator' = "Refreshing..."
  /\ requests' = requests \cup
       {Request(tickCount + 1, jobs[i]) : i \in 1..Len(jobs)}
  /\ tickPromise' = Append(tickPromise, "pending")
  /\ UNCHANGED <<pc, jobs, rows, emptyRow, pollerId, timers, submitDisabled,
                 uploadStatus, uploading, uploadCount>>

\* pollAllJobs asking only for the jobs that are not "done" yet.
pollAllJobsSkipsDone(t) ==
  /\ pc = "ready"
  /\ t \in timers
  /\ tickCount < MaxTicks
  /\ tickCount' = tickCount + 1
  /\ indicator' = "Refreshing..."
  /\ requests' = requests \cup
       {Request(tickCount + 1, jobs[i]) :
          i \in {k \in 1..Len(jobs) : ToLowerCase(jobs[k].status) # sDone}}
  /\ tickPromise' = Append(tickPromise, "pending")
  /\ UNCHANGED <<pc, jobs, rows, emptyRow, pollerId, timers, submitDisabled,
                 uploadStatus, uploading, uploadCount>>

\* pollAllJobs clearing the timer once every job is "done".
pollAllJobsStopsWhenDone(t) ==
  /\ pc = "ready"
  /\ t \in timers
  /\ tickCount < MaxTicks
  /\ tickCount' = tickCount + 1
  /\ IF \A i \in 1..Len(jobs) : ToLowerCase(jobs[i].status) = sDone
     THEN /\ tickPromise' = Append(tickPromise, "fulfilled")
          /\ timers' = timers \ {t}
          /\ pollerId' = 0
          /\ UNCHANGED <<requests, indicator>>
     ELSE /\ indicator' = "Refreshing..."
          /\ requests' = requests \cup
               {Request(tickCount + 1, jobs[i]) : i \in 1..Len(jobs)}
          /\ tickPromise' = Append(tickPromise, "pending")
          /\ UNCHANGED <<pollerId, timers>>
  /\ UNCHANGED <<pc, jobs, rows, emptyRow, submitDisabled,
                 uploadStatus, uploading, uploadCount>>

\* The synchronous part of pollAllJobs: one fetch per entry of the map, each
\* callback holding the entry it was created for.
pollAllJobs(t) ==
  /\ pc = "ready"
  /\ t \in timers
  /\ tickCount < MaxTicks
  /\ tickCount' = tickCount + 1
  /\ IF Len(jobs) = 0
     THEN /\ tickPromise' = Append(tickPromise, "fulfilled")
          /\ UNCHANGED <<requests, indicator>>
     ELSE /\ indicator' = "Refreshing..."
          /\ requests' = requests \cup
               {Request(tickCount + 1, jobs[i]) : i \in 1..Len(jobs)}
          /\ tickPromise' = Append(tickPromise, "pending")
  /\ UNCHANGED <<pc, jobs, rows, emptyRow, pollerId, timers, submitDisabled,
                 uploadStatus, uploading, uploadCount>>

\* The record written on a successful status response.
\* The merge keeping "done" once the record has it.
pollUpdatedMonotonic(job, payload) ==
  Job(job.id, Or(payload.filename, job.filename),
      IF ToLowerCase(job.status) = sDone
      THEN job.status
      ELSE Or(payload.status, job.status))

pollUpdated(job, payload) ==
  Job(job.id, Or(payload.filename, job.filename), Or(payload.status, job.status))

\* The callback writing whatever the failed response carried.
pollJobWritesFailure(m, rs, job, outcome, payload) ==
  LET updated == Job(job.id, payload.filename, payload.status)
  IN [jobs |-> MapSet(m, job.id, updated),
      rows |-> renderJob(rs, updated),
      rendered |-> TRUE,
      state |-> IF outcome = "ok" THEN "ok" ELSE "failed"]

\* The callback dropping a job whose request failed.
pollJobDropsFailed(m, rs, job, outcome, payload) ==
  IF outcome = "ok"
  THEN LET updated == pollUpdated(job, payload)
       IN [jobs |-> MapSet(m, job.id, updated),
           rows |-> renderJob(rs, updated),
           rendered |-> TRUE,
           state |-> "ok"]
  ELSE [jobs |-> SelectSeq(m, LAMBDA e : e.id # job.id),
        rows |-> rs, rendered |-> FALSE, state |-> "failed"]

\* The callback without its try/catch.
pollJobNoCatch(m, rs, job, outcome, payload) ==
  IF outcome = "ok"
  THEN LET updated == pollUpdated(job, payload)
       IN [jobs |-> MapSet(m, job.id, updated),
           rows |-> renderJob(rs, updated),
           rendered |-> TRUE,
           state |-> "ok"]
  ELSE [jobs |-> m, rows |-> rs, rendered |-> FALSE, state |-> "rejected"]

\* The body of one callback once its fetch has settled: the new map, the new
\* rows and how the callback's promise ends.
pollJob(m, rs, job, outcome, payload) ==
  IF outcome = "ok"
  THEN LET updated == pollUpdated(job, payload)
       IN [jobs |-> MapSet(m, job.id, updated),
           rows |-> renderJob(rs, updated),
           rendered |-> TRUE,
           state |-> "ok"]
  ELSE [jobs |-> m, rows |-> rs, rendered |-> FALSE, state |-> "failed"]

TickSettled(reqs, t) == \A r \in reqs : r.tick = t => r.state # "pending"

pollResponse(r, outcome, payload) ==
  /\ pc = "ready"
  /\ r \in requests
  /\ r.state = "pending"
  /\ \E out \in {pollJob(jobs, rows, r.job, outcome, payload)} :
     \E reqs \in {(requests \ {r}) \cup
                    {[r EXCEPT !.job = NoJob, !.state = out.state]}} :
        /\ jobs' = out.jobs
        /\ rows' = out.rows
        /\ emptyRow' = (emptyRow /\ ~out.rendered)
        /\ requests' = reqs
        /\ IF tickPromise[r.tick] # "pending"
           THEN UNCHANGED <<tickPromise, indicator>>
           ELSE IF out.state = "rejected"
           THEN /\ tickPromise' = [tickPromise EXCEPT ![r.tick] = "rejected"]
                /\ UNCHANGED indicator
           ELSE IF TickSettled(reqs, r.tick)
           THEN /\ tickPromise' = [tickPromise EXCEPT ![r.tick] = "fulfilled"]
                /\ indicator' = "Auto-refreshing..."
           ELSE UNCHANGED <<tickPromise, indicator>>
  /\ UNCHANGED <<pc, pollerId, timers, tickCount, submitDisabled,
                 uploadStatus, uploading, uploadCount>>

----------------------------------------------------------------------------
\* Upload.

\* handleUpload up to its first await: the button is disabled, the form data
\* is captured and the POST is sent.  A disabled submit button submits nothing.
handleUpload(file) ==
  /\ pc = "ready"
  /\ ~submitDisabled
  /\ uploadCount < MaxUploads
  /\ uploadCount' = uploadCount + 1
  /\ submitDisabled' = TRUE
  /\ uploadStatus' = "Uploading..."
  /\ uploading' = Append(uploading, file)
  /\ UNCHANGED <<pc, jobs, rows, emptyRow, pollerId, timers, tickCount,
                 tickPromise, requests, indicator>>

\* The id an upload response carries, if any.
uploadId(payload) == Or(payload.job_id, payload.id)

\* The job built from the upload response.
uploadJob(file, payload) ==
  Job(uploadId(payload),
      Or(Or(payload.filename, file), sPDF),
      Or(payload.status, sPending))

UploadErrorText(outcome) ==
  CASE outcome = "http_error" -> "Error: Upload failed (500)"
    [] outcome = "network_error" -> "Error: Failed to fetch"
    [] outcome = "bad_json" -> "Error: Unexpected end of JSON input"
    [] OTHER -> "Error: Missing job id in response"

\* The test of response.ok left out.
uploadAcceptedAnyStatus(outcome, job) ==
  outcome \in {"ok", "http_error"} /\ Truthy(job.id)

\* The test of job.id left out.
uploadAcceptedAnyId(outcome, job) == outcome = "ok"

\* Whether the try block reaches jobs.set: the response is ok, its body is
\* JSON and the job has an id.
uploadAccepted(outcome, job) == outcome = "ok" /\ Truthy(job.id)

\* The try/catch of handleUpload once the POST has settled.
\* The upload continuation without its call of startPolling.
uploadSettledNoStart(m, rs, p, ts, file, outcome, payload) ==
  LET job == uploadJob(file, payload)
  IN IF uploadAccepted(outcome, job)
     THEN [jobs |-> MapSet(m, job.id, job), rows |-> renderJob(rs, job),
           rendered |-> TRUE, pollerId |-> p, timers |-> ts,
           text |-> "Upload successful! Job created."]
     ELSE [jobs |-> m, rows |-> rs, rendered |-> FALSE,
           pollerId |-> p, timers |-> ts,
           text |-> UploadErrorText(IF outcome = "ok" THEN "no_id" ELSE outcome)]

uploadSettled(m, rs, p, ts, file, outcome, payload) ==
  LET job == uploadJob(file, payload)
  IN IF uploadAccepted(outcome, job)
     THEN LET m2 == MapSet(m, job.id, job)
              started == startPolling(p, ts, m2)
          IN [jobs |-> m2, rows |-> renderJob(rs, job), rendered |-> TRUE,
              pollerId |-> started[1], timers |-> started[2],
              text |-> "Upload successful! Job created."]
     ELSE [jobs |-> m, rows |-> rs, rendered |-> FALSE,
           pollerId |-> p, timers |-> ts,
           text |-> UploadErrorText(IF outcome = "ok" THEN "no_id" ELSE outcome)]

\* The button re-enabled at the end of the try block only.
uploadFinallyOnSuccess(outcome, created) == ~created

\* The finally of handleUpload: the button's disabled property afterwards.
uploadFinally(outcome, created) == FALSE

RemoveAt(q, i) == SubSeq(q, 1, i - 1) \o SubSeq(q, i + 1, Len(q))

uploadResponse(i, outcome, payload) ==
  /\ pc = "ready"
  /\ i \in 1..Len(uploading)
  /\ \E out \in {uploadSettled(jobs, rows, pollerId, timers, uploading[i],
                                outcome, payload)} :
        /\ jobs' = out.jobs
        /\ rows' = out.rows
        /\ emptyRow' = (emptyRow /\ ~out.rendered)
        /\ pollerId' = out.pollerId
        /\ timers' = out.timers
        /\ uploadStatus' = out.text
        /\ submitDisabled' = uploadFinally(outcome, out.rendered)
  /\ uploading' = RemoveAt(uploading, i)
  /\ UNCHANGED <<pc, tickCount, tickPromise, requests, indicator, uploadCount>>

----------------------------------------------------------------------------

pollSteps ==
  \/ \E r \in requests, p \in StatusPayloads : pollResponse(r, "ok", p)
  \/ \E r \in requests, p \in StatusErrorBodies :
       pollResponse(r, "http_error", p)
  \/ \E r \in requests, o \in BodyFailures : pollResponse(r, o, NoPayload)

uploadFailures ==
  \/ \E i \in 1..Len(uploading), p \in UploadErrorBodies :
       uploadResponse(i, "http_error", p)
  \/ \E i \in 1..Len(uploading), o \in BodyFailures :
       uploadResponse(i, o, NoPayload)

\* The server may answer an upload with any id, also one it gave before.
Next ==
  \/ seedExistingJobs
  \/ \E t \in timers : pollAllJobs(t)
  \/ pollSteps
  \/ \E f \in FormFiles : handleUpload(f)
  \/ \E i \in 1..Len(uploading), p \in UploadPayloads :
       uploadResponse(i, "ok", p)
  \/ uploadFailures

Spec == Init /\ [][Next]_vars

\* The same page against a server that gives every upload an id of its own.
NextUniqueIds ==
  \/ seedExistingJobs
  \/ \E t \in timers : pollAllJobs(t)
  \/ pollSteps
  \/ \E f \in FormFiles : handleUpload(f)
  \/ \E i \in 1..Len(uploading), p \in UploadPayloads :
       /\ uploadId(p) \notin MapKeys(jobs)
       /\ uploadResponse(i, "ok", p)
  \/ uploadFailures

SpecUniqueIds == Init /\ [][NextUniqueIds]_vars

----------------------------------------------------------------------------
\* renderJob on its own: any job may be written to the map and rendered over
\* the rows left by the renders before it.

DoneCasings ==
  {<<a, b, c, d>> : a \in {"d", "D"}, b \in {"o", "O"},
                    c \in {"n", "N"}, d \in {"e", "E"}}

RenderStatuses ==
  DoneCasings \cup {Undefined, sEmpty, sPending, Pad(sDone), <<"d", "o", "n">>}

RenderJobs ==
  {Job(id, sFileA, s) : id \in JobIds, s \in RenderStatuses}
    \cup {Job(id, Undefined, sPending) : id \in JobIds}

InitRender ==
  /\ pc = "ready"
  /\ rows \in SeedPages
  /\ jobs = seedRows(rows, << >>)
  /\ emptyRow = (rows = << >>)
  /\ pollerId = startPolling(0, {}, jobs)[1]
  /\ timers = startPolling(0, {}, jobs)[2]
  /\ tickCount = 0
  /\ tickPromise = << >>
  /\ requests = {}
  /\ indicator = ""
  /\ submitDisabled = FALSE
  /\ uploadStatus = ""
  /\ uploading = << >>
  /\ uploadCount = 0

\* jobs.set(job.id, job) followed by renderJob(job).
renderStep(job) ==
  /\ jobs' = MapSet(jobs, job.id, job)
  /\ rows' = renderJob(rows, job)
  /\ emptyRow' = FALSE
  /\ UNCHANGED <<pc, pollerId, timers, tickCount, tickPromise, requests,
                 indicator, submitDisabled, uploadStatus, uploading,
                 uploadCount>>

NextRender == \E job \in RenderJobs : renderStep(job)

SpecRender == InitRender /\ [][NextRender]_vars

----------------------------------------------------------------------------
\* Page load alone, over pages of up to MaxSeedRows rows; a row's data-job-id
\* may be empty, its name and status text may be blank, and the non-empty
\* ids of a page are distinct.

MaxSeedRows == 2

SeedRowChoices ==
  {ServerRow(id, name, status) :
     id \in JobIds \cup {sEmpty},
     name \in {sFileA, sEmpty},
     status \in SeedStatuses \cup {sEmpty}}

SeedPagesWide ==
  {page \in UNION {[1..n -> SeedRowChoices] : n \in 0..MaxSeedRows} :
     \A i \in 1..Len(page), j \in 1..Len(page) :
       (i # j /\ page[i].id = page[j].id) => page[i].id = sEmpty}

InitSeed ==
  /\ pc = "load"
  /\ jobs = << >>
  /\ rows \in SeedPagesWide
  /\ emptyRow = (rows = << >>)
  /\ pollerId = 0
  /\ timers = {}
  /\ tickCount = 0
  /\ tickPromise = << >>
  /\ requests = {}
  /\ indicator = ""
  /\ submitDisabled = FALSE
  /\ uploadStatus = ""
  /\ uploading = << >>
  /\ uploadCount = 0

NextSeed == seedExistingJobs

SpecSeed == InitSeed /\ [][NextSeed]_vars

----------------------------------------------------------------------------
\* The polling loop against a server whose status for every job has settled:
\* the page was rendered with an earlier status, the timer keeps firing and
\* every request is answered successfully.  A successful body carries the
\* server's status or, both fields being optional, no status.

ServerStatus(id) == sDoNe

LivePayloads(id) ==
  {p \in StatusPayloads : p.status \in {Undefined, ServerStatus(id)}}

LivePages ==
  {<<ServerRow(sId42, sFileA, sPending)>>,
   <<ServerRow(sId42, sFileA, sPending), ServerRow(sId7, sFileA, sPending)>>}

InitLive ==
  /\ pc = "load"
  /\ jobs = << >>
  /\ rows \in LivePages
  /\ emptyRow = FALSE
  /\ pollerId = 0
  /\ timers = {}
  /\ tickCount = 0
  /\ tickPromise = << >>
  /\ requests = {}
  /\ indicator = ""
  /\ submitDisabled = FALSE
  /\ uploadStatus = ""
  /\ uploading = << >>
  /\ uploadCount = 0

\* The successful response to the request tick tk issued for job id.
liveResponse(tk, id) ==
  \E r \in requests, p \in LivePayloads(id) :
    /\ r.tick = tk
    /\ r.id = id
    /\ pollResponse(r, "ok", p)

\* A successful response for job id that carries the server's status.
liveStatusResponse(id) ==
  \E r \in requests :
    /\ r.id = id
    /\ pollResponse(r, "ok", StatusPayload(Undefined, ServerStatus(id)))

\* Calls of pollAllJobs that have all returned leave nothing behind: their
\* requests and promises are dropped and the ticks are counted afresh.
forgetSettled ==
  /\ pc = "ready"
  /\ requests # {}
  /\ \A r \in requests : r.state # "pending"
  /\ requests' = {}
  /\ tickCount' = 0
  /\ tickPromise' = << >>
  /\ UNCHANGED <<pc, jobs, rows, emptyRow, pollerId, timers, indicator,
                 submitDisabled, uploadStatus, uploading, uploadCount>>

NextLive ==
  \/ seedExistingJobs
  \/ \E t \in timers : pollAllJobs(t)
  \/ \E tk \in 1..MaxTicks, id \in JobIds : liveResponse(tk, id)
  \/ forgetSettled

\* The page loads, the timer keeps firing, every request is answered, and
\* answers carrying the status keep coming for every job.
FairLive ==
  /\ WF_vars(seedExistingJobs)
  /\ WF_vars(\E t \in timers : pollAllJobs(t))
  /\ WF_vars(forgetSettled)
  /\ \A tk \in 1..MaxTicks, id \in JobIds : WF_vars(liveResponse(tk, id))
  /\ \A id \in JobIds : SF_vars(liveStatusResponse(id))

SpecLive == InitLive /\ [][NextLive]_vars /\ FairLive

----------------------------------------------------------------------------
\* Properties.

\* What a cell shows: its text without the surrounding blanks.
Shown(text) == Trim(text)

Entries(m, id) == {k \in 1..Len(m) : m[k].id = id}

\* C1: when a successful status response is processed, a field the response
\* does not carry keeps the value the map held for that job just before; a
\* response without status changes neither the stored nor the shown status.
C1_AbsentFieldsKeepStoredValue ==
  [][\A r \in requests, p \in StatusPayloads :
       pollResponse(r, "ok", p) =>
         /\ p.filename = Undefined =>
              MapGet(jobs', r.id).filename = MapGet(jobs, r.id).filename
         /\ p.status = Undefined =>
              /\ MapGet(jobs', r.id).status = MapGet(jobs, r.id).status
              /\ Shown(RowOf(rows', r.id).status) = Shown(RowOf(rows, r.id).status)
    ]_vars

\* C2: startPolling leaves a running timer alone and starts none for an empty
\* map, so at most one interval timer exists, it is the one pollerId names,
\* and none exists while the map is empty.
C2_AtMostOneTimer ==
  /\ Cardinality(timers) <= 1
  /\ timers = IF pollerId = 0 THEN {} ELSE {pollerId}
  /\ Len(jobs) = 0 => timers = {}

\* startPolling has been called with the timer already running: the page was
\* seeded with a job and an upload has added a second one.
C2_Witness ==
  /\ Len(jobs) = 2
  /\ uploadStatus = "Upload successful! Job created."
  /\ Cardinality(timers) = 1

\* C3: a failed status request changes neither the map nor the rows, the job
\* stays in the map, and every tick asks again for every job of the map.
C3_FailedPollLeavesJob ==
  [][/\ \A r \in requests, o \in Failures, p \in StatusErrorBodies :
          pollResponse(r, o, p) =>
            /\ jobs' = jobs
            /\ rows' = rows
            /\ r.id \in MapKeys(jobs')
     /\ \A t \in timers :
          pollAllJobs(t) =>
            \A id \in MapKeys(jobs) :
              \E q \in requests' :
                q.id = id /\ q.tick = tickCount' /\ q.state = "pending"
    ]_vars

\* A request has failed and a later tick has asked for the same job again.
C3_Witness ==
  \E r \in requests, q \in requests :
    r.state = "failed" /\ q.id = r.id /\ q.tick > r.tick

\* C4: no older response overwrites a newer one: once the response to a
\* later request for a job has been applied, applying the response to an
\* earlier request for it leaves the job's row as it is.
C4_NoStaleOverwrite ==
  [][\A r \in requests, p \in StatusPayloads :
       (/\ pollResponse(r, "ok", p)
        /\ \E q \in requests : q.id = r.id /\ q.tick > r.tick /\ q.state = "ok")
       => RowOf(rows', r.id) = RowOf(rows, r.id)
    ]_vars

\* C5: after an upload answered with success and a job id, the map holds
\* exactly one entry with that id, the job has a row, and the timer runs.
C5_UploadCreatesOneJob ==
  [][\A i \in 1..Len(uploading), p \in UploadPayloads :
       (uploadResponse(i, "ok", p) /\ Truthy(uploadId(p))) =>
         /\ Cardinality(Entries(jobs', uploadId(p))) = 1
         /\ RowHas(rows', uploadId(p))
         /\ pollerId' # 0
         /\ pollerId' \in timers'
    ]_vars

C5_Witness ==
  /\ uploadStatus = "Upload successful! Job created."
  /\ \E id \in JobIds : MapHas(jobs, id) /\ RowHas(rows, id)
  /\ timers # {}

\* C6: an upload answered with a non-success HTTP status creates no job: map,
\* rows and timer are unchanged, an error is shown, the button is enabled.
C6_HttpErrorCreatesNoJob ==
  [][\A i \in 1..Len(uploading), p \in UploadErrorBodies :
       uploadResponse(i, "http_error", p) =>
         /\ UNCHANGED <<jobs, rows, emptyRow, pollerId, timers>>
         /\ uploadStatus' = "Error: Upload failed (500)"
         /\ ~submitDisabled'
    ]_vars

C6_Witness ==
  /\ uploadStatus = "Error: Upload failed (500)"
  /\ ~submitDisabled
  /\ uploadCount > 0

\* C7: an upload answered with success but without a job id is a failure:
\* no entry, no row, no timer started, an error shown.
C7_MissingIdCreatesNoJob ==
  [][\A i \in 1..Len(uploading), p \in UploadPayloads :
       (uploadResponse(i, "ok", p) /\ ~Truthy(uploadId(p))) =>
         /\ UNCHANGED <<jobs, rows, emptyRow, pollerId, timers>>
         /\ uploadStatus' = "Error: Missing job id in response"
    ]_vars

C7_Witness ==
  /\ uploadStatus = "Error: Missing job id in response"
  /\ uploadCount > 0

\* C8: the submit button is disabled exactly while an upload is in flight:
\* disabled from the submit on, enabled again when the handler has finished,
\* whichever way it finished.
C8_ButtonDisabledWhileUploading ==
  submitDisabled <=> Len(uploading) > 0

\* An upload has ended in an error of the body and the button is enabled.
C8_Witness ==
  /\ uploadStatus = "Error: Unexpected end of JSON input"
  /\ Len(uploading) = 0
  /\ ~submitDisabled

\* C9: every render of a job leaves in its row's download cell the link to
\* /api/download/{id} if the status given to that render is "done" in some
\* casing, and the disabled placeholder otherwise, whatever the row held.
C9_DownloadLinkIffDone ==
  [][\A job \in RenderJobs :
       renderStep(job) =>
         RowOf(rows', job.id).download =
           IF job.status \in DoneCasings
           THEN DownloadPrefix \o job.id
           ELSE NotReady
    ]_vars

\* A row rendered with an upper-case status holds the link, and a row
\* rendered with a status that is not "done" holds the placeholder.
C9_Witness ==
  /\ RowHas(rows, sId42) /\ RowHas(rows, sId7)
  /\ RowOf(rows, sId42).status = sDONE
  /\ RowOf(rows, sId42).download = DownloadPrefix \o sId42
  /\ RowOf(rows, sId7).status = Pad(sDone)
  /\ RowOf(rows, sId7).download = NotReady

\* C10: a failed request of a tick leaves the other requests as they are,
\* a sibling answered with success is merged and rendered whether or not the
\* tick has had a failure, and no tick's promise is ever rejected.
C10_FailureDoesNotBlockSiblings ==
  [][/\ \A r \in requests, o \in Failures, p \in StatusErrorBodies :
          pollResponse(r, o, p) =>
            /\ \A q \in requests \ {r} : q \in requests'
            /\ tickPromise'[r.tick] # "rejected"
     /\ \A r \in requests, p \in StatusPayloads :
          (/\ pollResponse(r, "ok", p)
           /\ \E q \in requests : q.tick = r.tick /\ q.state = "failed")
          => /\ Truthy(p.status) =>
                  /\ MapGet(jobs', r.id).status = p.status
                  /\ RowOf(rows', r.id).status = p.status
             /\ Truthy(p.filename) =>
                  /\ MapGet(jobs', r.id).filename = p.filename
                  /\ RowOf(rows', r.id).name = p.filename
             /\ tickPromise'[r.tick] # "rejected"
    ]_vars

\* In one tick a request has failed and a sibling's response has been applied.
C10_Witness ==
  \E r \in requests, q \in requests :
    /\ r.tick = q.tick
    /\ r.id # q.id
    /\ r.state = "failed"
    /\ q.state = "ok"
    /\ tickPromise[r.tick] = "fulfilled"

\* Every job of the map has a status that reads "done".
AllDone == \A i \in 1..Len(jobs) : ToLowerCase(jobs[i].status) = sDone

\* C11: once a timer has been started it stays: no step, whether a poll
\* failure, an upload failure or a job reaching "done", removes the timer or
\* clears pollerId.
C11_TimerNeverStops ==
  [][timers # {} =>
       /\ timers' = timers
       /\ pollerId' = pollerId
       /\ pollerId' \in timers'
    ]_vars

\* The timer runs although every job is "done", a status request has failed,
\* an upload has failed and both ticks have fired.
C11_Witness ==
  /\ timers # {}
  /\ Len(jobs) > 0
  /\ AllDone
  /\ \E r \in requests : r.state = "failed"
  /\ uploadStatus = "Error: Upload failed (500)"
  /\ tickCount = MaxTicks

\* C12: the response to a status request for one job, successful or failed,
\* leaves the map entry and the row of every other job as they were.
C12_OtherJobsUntouched ==
  [][\A r \in requests, o \in {"ok"} \cup Failures,
        p \in StatusPayloads \cup StatusErrorBodies :
       pollResponse(r, o, p) =>
         /\ Len(rows') = Len(rows)
         /\ \A id \in MapKeys(jobs) \ {r.id} :
              /\ MapHas(jobs', id)
              /\ MapGet(jobs', id) = MapGet(jobs, id)
              /\ RowHas(rows', id)
              /\ RowOf(rows', id) = RowOf(rows, id)
    ]_vars

\* Two jobs of one tick have both had their responses applied.
C12_Witness ==
  \E r \in requests, q \in requests :
    /\ r.tick = q.tick
    /\ r.id # q.id
    /\ r.state = "ok"
    /\ q.state = "ok"

\* C13: no step removes an id from the map, and every id of the map has
\* exactly one entry: a write for an id the map holds replaces its entry.
C13_JobsOnlyGrow ==
  [][/\ MapKeys(jobs) \subseteq MapKeys(jobs')
     /\ Len(jobs) <= Len(jobs')
     /\ \A id \in MapKeys(jobs') : Cardinality(Entries(jobs', id)) = 1
    ]_vars

\* The seeded job has been written again by a status response and by a failed
\* request's tick, next to a job added by an upload.
C13_Witness ==
  /\ Len(jobs) = 2
  /\ \E r \in requests : r.id = sId42 /\ r.state = "ok"
  /\ \E r \in requests : r.state = "failed"

\* C14: with the timer firing for ever and every request answered
\* successfully, a job whose status at the server stays s has s as its stored
\* status and in its row from some point on, for ever.
C14_EventuallyShowsServerStatus ==
  <>[](/\ pc = "ready"
       /\ \A id \in MapKeys(jobs) :
            /\ MapGet(jobs, id).status = ServerStatus(id)
            /\ RowOf(rows, id).status = ServerStatus(id))

\* The rows of the page that carry a non-empty job id, in document order.
RowsWithId(rs) == SelectSeq(rs, LAMBDA row : row.id # sEmpty)

\* C15: after page load the map holds one job per row with a non-empty id,
\* in document order, with the row's id and the shown text of its name and
\* status cells, and the timer runs exactly when there is such a row.
C15_SeededFromRows ==
  pc = "ready" =>
    LET seeded == RowsWithId(rows)
    IN /\ Len(jobs) = Len(seeded)
       /\ \A i \in 1..Len(seeded) :
            /\ jobs[i].id = seeded[i].id
            /\ jobs[i].filename = Shown(seeded[i].name)
            /\ jobs[i].status = Shown(seeded[i].status)
       /\ timers # {} <=> Len(seeded) > 0
       /\ pollerId # 0 <=> Len(seeded) > 0

\* A page of two rows, the first without an id, was loaded: one job, timer
\* running.
C15_Witness ==
  /\ pc = "ready"
  /\ Len(rows) = 2
  /\ rows[1].id = sEmpty
  /\ Len(jobs) = 1
  /\ jobs[1].id = rows[2].id
  /\ jobs[1].status = sDone
  /\ timers # {}

\* The requests of the set that have no response yet.
InFlight(reqs) == {r \in reqs : r.state = "pending"}

\* C16: the timer is not held back by an unsettled tick: while requests are
\* in flight the next tick can fire, and when it fires the earlier requests
\* stay in flight next to a new request for the same job.
C16_TicksOverlap ==
  [][/\ (pc = "ready" /\ timers # {} /\ tickCount < MaxTicks)
          => ENABLED (\E t \in timers : pollAllJobs(t))
     /\ \A t \in timers :
          pollAllJobs(t) =>
            \A r \in InFlight(requests) :
              /\ r \in InFlight(requests')
              /\ \E q \in InFlight(requests') : q.id = r.id /\ q.tick # r.tick
    ]_vars

\* Two requests for one job, issued by different ticks, are both in flight.
C16_Witness ==
  \E r \in InFlight(requests), q \in InFlight(requests) :
    r.id = q.id /\ r.tick # q.tick

\* C17: a tick issues one request for each job the map holds when it starts,
\* capturing that job's record whatever its status, and nothing else; while
\* the map is empty no request is issued.
C17_OneRequestPerJobPerTick ==
  [][/\ Len(jobs) = 0 => requests' = {}
     /\ \A t \in timers :
          pollAllJobs(t) =>
            /\ requests \subseteq requests'
            /\ \A q \in requests' \ requests :
                 /\ q.tick = tickCount'
                 /\ q.state = "pending"
                 /\ MapHas(jobs, q.id)
                 /\ q.job = MapGet(jobs, q.id)
            /\ \A id \in MapKeys(jobs) :
                 Cardinality({q \in requests' \ requests : q.id = id}) = 1
    ]_vars

\* The second tick has asked for two jobs, one of them already "done".
C17_Witness ==
  /\ Len(jobs) = 2
  /\ tickCount = 2
  /\ \E q \in InFlight(requests) :
       q.tick = 2 /\ ToLowerCase(q.job.status) = sDone
  /\ \E q \in InFlight(requests) :
       q.tick = 2 /\ ToLowerCase(q.job.status) # sDone

\* A status a response reports that does not read "done".
ReportsNotDone(payload) ==
  Truthy(payload.status) /\ ToLowerCase(payload.status) # sDone

\* C18: status is not kept monotonic: a successful response carrying a
\* status other than "done" for a job whose stored status is "done" replaces
\* the stored status and the badge text by it and the download link by the
\* disabled placeholder.
C18_DoneCanRegress ==
  [][\A r \in requests, p \in StatusPayloads :
       ( /\ pollResponse(r, "ok", p)
         /\ ToLowerCase(MapGet(jobs, r.id).status) = sDone
         /\ ReportsNotDone(p) )
       => /\ MapGet(jobs', r.id).status = p.status
          /\ RowOf(rows', r.id).status = p.status
          /\ RowOf(rows', r.id).badge = ToLowerCase(p.status)
          /\ RowOf(rows', r.id).download = NotReady
    ]_vars

\* A job a response had set to "done" reads "pending" again after the
\* response to a request issued while it was "done".
C18_Witness ==
  \E i \in 1..Len(jobs) :
    /\ jobs[i].status = sPending
    /\ RowOf(rows, jobs[i].id).download = NotReady
    /\ \E r \in requests :
         /\ r.id = jobs[i].id
         /\ r.state = "ok"
         /\ r.tick = 2
    /\ \A r \in requests : r.id = jobs[i].id => r.state = "ok"
    /\ rows \notin SeedPages
    /\ uploadCount = 0
    /\ \E j \in 1..Len(tickPromise) : tickPromise[j] = "fulfilled"

\* C19: after page load the timer runs exactly while the map holds a job.
C19_TimerIffJobs ==
  pc = "ready" =>
    /\ timers # {} <=> Len(jobs) > 0
    /\ pollerId # 0 <=> Len(jobs) > 0

\* The page was loaded without rows and an upload made the first job: the
\* timer runs.
C19_Witness ==
  /\ pc = "ready"
  /\ Len(jobs) = 1
  /\ uploadStatus = "Upload successful! Job created."
  /\ tickCount = 0
  /\ timers # {}
  /\ pollerId \in timers

\* C20: the indicator reads "Refreshing..." whenever a request of some tick
\* is in flight, and "Auto-refreshing..." only when none is.
C20_IndicatorTracksInFlight ==
  /\ InFlight(requests) # {} => indicator = "Refreshing..."
  /\ indicator = "Auto-refreshing..." => InFlight(requests) = {}

====
